---- MODULE Spec2Model ----
(***************************************************************************)
(* State-machine model of schild2jamf.py: the identity pass (parse_users), *)
(* course resolution (return_list_of_courses_of_student), the two          *)
(* provisioning batches (create_jamf_accounts and                          *)
(* create_jamf_accounts_teachers), the class lookup (return_class_of_user),*)
(* the group canonicalizer (parse_groups, rename_groups), parse_year and   *)
(* the export run (main_export).                                           *)
(*                                                                         *)
(* A Python str is modelled as a sequence of one-character strings, so     *)
(* that slicing, replace, split, lower and substring tests are computed    *)
(* the way the code computes them.                                         *)
(***************************************************************************)
EXTENDS Integers, Sequences, FiniteSets, TLC

VARIABLES
    users,        \* list of User objects filled by parse_users
    birthday,     \* the local variable `birthday` of parse_users (kept across loop iterations)
    elems,        \* the person elements consumed so far, in document order
    memberships,  \* list of Membership objects filled by parse_memberships
    groups,       \* list of Group objects (names as left by rename_groups)
    pc,           \* position of the running operation
    err,          \* name of the exception that ended the run ("" when none)
    call,         \* the last call of return_list_of_courses_of_student: [studentid, ret]
    batch,        \* locals of the running create_jamf_accounts* call
    outfile,      \* the output CSV: [exists, header, records]
    gelems,       \* the group elements consumed so far, in document order
    lastparent,   \* the local variable `parent` of parse_groups (kept across loop iterations)
    rename,       \* rename_groups: [i: groups already renamed, lookups: keys read from mappings.mappinggroups]
    export        \* main_export: [doc, schuljahr, ret, users_csv, groups_csv, renamed_csv]

exportVars == <<gelems, lastparent, rename, export>>

vars == <<users, birthday, elems, memberships, groups, pc, err, call, batch, outfile,
          gelems, lastparent, rename, export>>

-----------------------------------------------------------------------------
(* Bounds of the model *)

MaxUsers == 3
MaxMemberships == 3
MaxBatchUsers == 2
MaxBatchMemberships == 2
MaxGroups == 2
MaxExportUsers == 1
MaxExportMemberships == 1
MaxYear == 49

-----------------------------------------------------------------------------
(* Python str operations on sequences of characters *)

Min(a, b) == IF a < b THEN a ELSE b
Max(a, b) == IF a > b THEN a ELSE b

\* s[:n]
Take(s, n) == SubSeq(s, 1, Min(n, Len(s)))

\* s[n:]
Drop(s, n) == SubSeq(s, Min(n, Len(s)) + 1, Len(s))

\* s[-n:]
LastN(s, n) == SubSeq(s, Max(Len(s) - n, 0) + 1, Len(s))

\* s.replace(c, "") for a one-character c
RemoveChar(s, c) == SelectSeq(s, LAMBDA x : x # c)

\* sub in s
RECURSIVE Contains(_, _)
Contains(s, sub) ==
    IF Len(sub) > Len(s) THEN FALSE
    ELSE IF SubSeq(s, 1, Len(sub)) = sub THEN TRUE
    ELSE Contains(Tail(s), sub)

\* s.split(c) for a one-character c: the list of fields
RECURSIVE Split(_, _)
Split(s, c) ==
    IF \A k \in 1..Len(s) : s[k] # c THEN <<s>>
    ELSE LET k == CHOOSE k \in 1..Len(s) : s[k] = c /\ \A j \in 1..(k - 1) : s[j] # c
         IN  <<SubSeq(s, 1, k - 1)>> \o Split(SubSeq(s, k + 1, Len(s)), c)

\* sep.join(list)
RECURSIVE Join(_, _)
Join(list, sep) ==
    IF list = <<>> THEN <<>>
    ELSE IF Len(list) = 1 THEN list[1]
    ELSE list[1] \o sep \o Join(Tail(list), sep)

UpperLetters == <<"A","B","C","D","E","F","G","H","I","J","K","L","M",
                  "N","O","P","Q","R","S","T","U","V","W","X","Y","Z">>
LowerLetters == <<"a","b","c","d","e","f","g","h","i","j","k","l","m",
                  "n","o","p","q","r","s","t","u","v","w","x","y","z">>

LowerChar(c) ==
    IF \E k \in 1..26 : UpperLetters[k] = c
    THEN LowerLetters[CHOOSE k \in 1..26 : UpperLetters[k] = c]
    ELSE c

\* s.lower()
Lower(s) == [k \in 1..Len(s) |-> LowerChar(s[k])]

-----------------------------------------------------------------------------
(* custom_transliterate *)

\* the six replacements of the `translations` dict
Translation(c) ==
    CASE c = "ä" -> <<"a", "e">>
      [] c = "ö" -> <<"o", "e">>
      [] c = "ü" -> <<"u", "e">>
      [] c = "Ä" -> <<"A", "e">>
      [] c = "Ö" -> <<"O", "e">>
      [] c = "Ü" -> <<"U", "e">>
      [] OTHER -> <<c>>

\* unidecode() on the characters of the model's alphabet: ASCII is kept as it
\* is (letters, digits, space, "-", "'", "."), accented letters are folded.
Unidecode(c) ==
    CASE c = "é" -> <<"e">>
      [] c = "ß" -> <<"s", "s">>
      [] OTHER -> <<c>>

\* lines 499-500: every occurrence of a key is replaced by its digraph
RECURSIVE ReplaceTranslations(_)
ReplaceTranslations(s) ==
    IF s = <<>> THEN <<>> ELSE Translation(Head(s)) \o ReplaceTranslations(Tail(s))

RECURSIVE UnidecodeStr(_)
UnidecodeStr(s) ==
    IF s = <<>> THEN <<>> ELSE Unidecode(Head(s)) \o UnidecodeStr(Tail(s))

CustomTransliterate(name) == UnidecodeStr(ReplaceTranslations(name))

-----------------------------------------------------------------------------
(* return_username *)

\* return_username with the kurzform slice of the given name one character
\* short ([:3] instead of [:4])
ReturnUsernameFirst3(given, last, typ) ==
    IF typ = "vorname.nachname"
    THEN Lower(Split(CustomTransliterate(given), " ")[1] \o <<".">>
               \o RemoveChar(RemoveChar(CustomTransliterate(last), " "), "-"))
    ELSE Lower(Take(Split(CustomTransliterate(given), " ")[1], 3)
               \o Take(RemoveChar(RemoveChar(CustomTransliterate(last), " "), "-"), 4))

ReturnUsername(given, last, typ) ==
    IF typ = "vorname.nachname"
    THEN Lower(Split(CustomTransliterate(given), " ")[1] \o <<".">>
               \o RemoveChar(RemoveChar(CustomTransliterate(last), " "), "-"))
    ELSE \* typ = "kurzform"
         Lower(Take(Split(CustomTransliterate(given), " ")[1], 4)
               \o Take(RemoveChar(RemoveChar(CustomTransliterate(last), " "), "-"), 4))

\* strip_hyphens_from_birthday
StripHyphensFromBirthday(b) == RemoveChar(b, "-")

-----------------------------------------------------------------------------
(* parse_users *)

\* lines 126-127: "YYYY-MM-DD" is stored as "DD.MM.YYYY"
BirthdayFromBday(text) ==
    LET birthdaytemp == Split(text, "-")
    IN  birthdaytemp[3] \o <<".">> \o birthdaytemp[2] \o <<".">> \o birthdaytemp[1]

\* lines 138-140 as the spec describes them: the candidate of the person is
\* compared with every earlier username, and "1" is appended once
ResolveCollisionOnce(tempusername, us) ==
    IF \E k \in 1..Len(us) : us[k].username = tempusername
    THEN tempusername \o <<"1">>
    ELSE tempusername

\* lines 138-140: one scan over the users appended so far; the comparison is
\* with the running value of tempusername
RECURSIVE ResolveCollision(_, _)
ResolveCollision(tempusername, us) ==
    IF us = <<>> THEN tempusername
    ELSE ResolveCollision(
             IF tempusername = Head(us).username
             THEN tempusername \o <<"1">> ELSE tempusername,
             Tail(us))

\* line 143
InitialPasswordOf(lehrerid, tempusername, bday) ==
    LastN(lehrerid, 3) \o LastN(tempusername, 2)
        \o Take(StripHyphensFromBirthday(bday), 3) \o Take(tempusername, 2)

\* the value of the local `birthday` after lines 122-135 of one iteration
BirthdayAfter(p, before) ==
    IF p.role = "Student"
    THEN IF p.hasBday THEN [bound |-> TRUE, val |-> BirthdayFromBday(p.bday)]
         ELSE before
    ELSE [bound |-> TRUE, val |-> <<>>]

\* one iteration of the loop of parse_users over a person element p
ParseUserStep(p) ==
    LET tempusername0 ==
            IF p.role = "Student"
            THEN ReturnUsername(p.given, p.family, "kurzform")
            ELSE ReturnUsername(p.given, p.family, "vorname.nachname")
        tempusername == ResolveCollision(tempusername0, users)
        bd == BirthdayAfter(p, birthday)
    IN  /\ elems' = Append(elems, p)
        /\ birthday' = bd
        /\ IF bd.bound
           THEN /\ users' = Append(users,
                        [lehrerid |-> p.id, name |-> p.family, given |-> p.given,
                         institutionrole |-> p.role, email |-> p.email,
                         birthday |-> bd.val, username |-> tempusername,
                         initialpassword |->
                             InitialPasswordOf(p.id, tempusername, bd.val)])
                /\ UNCHANGED <<pc, err>>
           ELSE \* line 143 reads `birthday` before any assignment to it
                /\ pc' = "failed"
                /\ err' = "UnboundLocalError"
                /\ UNCHANGED users

-----------------------------------------------------------------------------
(* Person elements of the input document *)

Person(id, family, given, role, email, hasBday, bday) ==
    [id |-> id, family |-> family, given |-> given, role |-> role,
     email |-> email, hasBday |-> hasBday, bday |-> bday]

P_Michael ==
    Person(<<"D","E",".","N","W",".","1","2","3","4","5","6","X","7","8","9">>,
           <<"M","ü","l","l","e","r">>, <<"M","i","c","h","a","e","l">>,
           "Student", <<>>, TRUE, <<"2","0","0","8","-","0","5","-","1","2">>)
P_Michaela ==
    Person(<<"S","-","0","2">>,
           <<"M","u","e","l","l","e","r">>, <<"M","i","c","h","a","e","l","a">>,
           "Student", <<>>, TRUE, <<"2","0","0","9","-","0","1","-","3","1">>)
P_Michel ==
    Person(<<"S","-","0","3">>,
           <<"M","ü","l","h","e","i","m">>, <<"M","i","c","h","e","l">>,
           "Student", <<>>, FALSE, <<>>)
P_Luca ==
    Person(<<"S","4">>,
           <<"D","'","A","n","g","e","l","o">>, <<"L","u","c","a">>,
           "Student", <<>>, TRUE, <<"2","0","1","0","-","1","1","-","0","2">>)
P_Joerg ==
    Person(<<"D","E",".","N","W",".","0","0","0","1","M","E","I">>,
           <<"M","e","i","e","r","-","S","t","o","ß">>, <<"J","ö","r","g"," ","U","w","e">>,
           "faculty", <<"J",".","M","@","x",".","d","e">>, FALSE, <<>>)
P_Rene ==
    Person(<<"E","X","6">>,
           <<"d","e"," ","V","r","i","e","s">>, <<"R","e","n","é">>,
           "extern", <<>>, FALSE, <<>>)

PersonPool == {P_Michael, P_Michaela, P_Michel, P_Luca, P_Joerg, P_Rene}

-----------------------------------------------------------------------------
(* The identity pass: parse_users over a document of at most MaxUsers persons *)

NoCall == [studentid |-> <<>>, done |-> FALSE, ret |-> <<>>]
NoBatch == [kind |-> "none", klasse_filter |-> <<>>, roster |-> <<>>,
            i |-> 0, ser_nums |-> <<>>, n |-> 0]
NoFile == [exists |-> FALSE, header |-> "", records |-> <<>>]
NoRename == [i |-> 0, lookups |-> <<>>]
NoCsv == [exists |-> FALSE, rows |-> <<>>]
NoExport == [doc |-> <<>>, schuljahr |-> [bound |-> FALSE, val |-> <<>>],
             ret |-> [done |-> FALSE, none |-> TRUE, val |-> <<>>],
             users_csv |-> NoCsv, groups_csv |-> NoCsv, renamed_csv |-> NoCsv]

InitUsers ==
    /\ users = <<>>
    /\ birthday = [bound |-> FALSE, val |-> <<>>]
    /\ elems = <<>>
    /\ memberships = <<>>
    /\ groups = <<>>
    /\ pc = "parse_users"
    /\ err = ""
    /\ call = NoCall
    /\ batch = NoBatch
    /\ outfile = NoFile
    /\ gelems = <<>>
    /\ lastparent = <<>>
    /\ rename = NoRename
    /\ export = NoExport

ParseUser ==
    /\ pc = "parse_users"
    /\ Len(elems) < MaxUsers
    /\ \E p \in PersonPool :
           \* every person element of a document has its own sourcedid
           /\ \A k \in 1..Len(elems) : elems[k].id # p.id
           /\ ParseUserStep(p)
    /\ UNCHANGED <<memberships, groups, call, batch, outfile, exportVars>>

NextUsers == ParseUser

Spec == InitUsers /\ [][NextUsers]_vars

-----------------------------------------------------------------------------
(* return_list_of_courses_of_student *)

HasGroup(gs, groupid) == \E k \in 1..Len(gs) : gs[k].groupid = groupid

\* line 641: [group.name for group in groups if group.groupid == course][0]
FirstGroupName(gs, groupid) ==
    gs[CHOOSE k \in 1..Len(gs) :
           /\ gs[k].groupid = groupid
           /\ \A j \in 1..(k - 1) : gs[j].groupid # groupid].name

\* the loop of lines 634-649 over the remaining memberships ms
RECURSIVE CoursesLoop(_, _, _, _)
CoursesLoop(studentid, ms, gs, courseslist) ==
    IF ms = <<>> THEN courseslist
    ELSE IF Head(ms).nameid # studentid
    THEN CoursesLoop(studentid, Tail(ms), gs, courseslist)
    ELSE IF ~HasGroup(gs, Head(ms).groupid)
    THEN \* line 641 raises IndexError; lines 647-649 reset the list and go on
         CoursesLoop(studentid, Tail(ms), gs, <<>>)
    ELSE CoursesLoop(studentid, Tail(ms), gs,
             IF FirstGroupName(gs, Head(ms).groupid) # <<>>
             THEN Append(courseslist, FirstGroupName(gs, Head(ms).groupid))
             ELSE courseslist)

ReturnListOfCoursesOfStudent(studentid, ms, gs) == CoursesLoop(studentid, ms, gs, <<>>)

-----------------------------------------------------------------------------
(* Groups and memberships of the input document *)

Group(groupid, name, parent) == [groupid |-> groupid, name |-> name, parent |-> parent]

G_AlleS == <<"g","1">>
G_07D == <<"g","2">>
G_Fach == <<"g","3">>
G_AlleL == <<"g","4">>
G_09A == <<"g","5">>
G_Missing == <<"g","X">>

\* the group list as rename_groups leaves it
RenamedGroups ==
    << Group(G_AlleS, <<"A","l","l","e","S">>, <<>>),
       Group(G_07D, <<"0","7","D","S","2","4">>, <<>>),
       Group(G_Fach, <<>>, <<>>),
       Group(G_AlleL, <<"A","l","l","e","L">>, <<>>),
       Group(G_09A, <<"0","9","A","L","2","4">>, <<>>) >>

\* one iteration of the loop of parse_memberships
ParseMembershipStep(groupid, nameid) ==
    memberships' = Append(memberships,
        [membershipid |-> Len(memberships), groupid |-> groupid, nameid |-> nameid])

-----------------------------------------------------------------------------
(* Course resolution: memberships are parsed, then the courses of one person *)
(* are resolved                                                            *)

CourseGroupIds == {G_AlleS, G_07D, G_Fach, G_Missing}
CourseMemberIds == {P_Luca.id, P_Rene.id}

InitCourses ==
    /\ users = <<>>
    /\ birthday = [bound |-> FALSE, val |-> <<>>]
    /\ elems = <<>>
    /\ memberships = <<>>
    /\ groups = RenamedGroups
    /\ pc = "parse_memberships"
    /\ err = ""
    /\ call = NoCall
    /\ batch = NoBatch
    /\ outfile = NoFile
    /\ gelems = <<>>
    /\ lastparent = <<>>
    /\ rename = NoRename
    /\ export = NoExport

ParseMembership ==
    /\ pc = "parse_memberships"
    /\ Len(memberships) < MaxMemberships
    /\ \E g \in CourseGroupIds, n \in CourseMemberIds : ParseMembershipStep(g, n)
    /\ UNCHANGED <<users, birthday, elems, groups, pc, err, call, batch, outfile, exportVars>>

ReturnCourses ==
    /\ pc = "parse_memberships"
    /\ \E studentid \in CourseMemberIds :
           call' = [studentid |-> studentid, done |-> TRUE,
                    ret |-> ReturnListOfCoursesOfStudent(studentid, memberships, groups)]
    /\ pc' = "returned"
    /\ UNCHANGED <<users, birthday, elems, memberships, groups, err, batch, outfile, exportVars>>

NextCourses == ParseMembership \/ ReturnCourses

SpecCourses == InitCourses /\ [][NextCourses]_vars

-----------------------------------------------------------------------------
(* Calls between the functions of the module.  A call binds its positional *)
(* arguments to the parameters of the callee first; when a required        *)
(* parameter gets no argument, Python raises TypeError and the body of the *)
(* callee does not run.                                                    *)

Raised(name) == [raised |-> TRUE, exc |-> name, value |-> <<>>]
Returned(v) == [raised |-> FALSE, exc |-> "", value |-> v]

\* def return_list_of_courses_of_student(studentid, memberships, groups)
CallReturnListOfCoursesOfStudent(args) ==
    IF Len(args) = 3
    THEN Returned(ReturnListOfCoursesOfStudent(args[1], args[2], args[3]))
    ELSE Raised("TypeError")

\* mappings.mappingklassen, in the order of its items: class label of a
\* renamed homeroom group -> class
MappingKlassen ==
    << [item |-> <<"0","7","D","S">>, klasse |-> <<"7","d">>],
       [item |-> <<"0","9","A","S">>, klasse |-> <<"9","a">>] >>

\* the global `schuljahr`
Schuljahr == <<"2","4">>

\* the loop of lines 683-687 over the items of mappingklassen from index k
\* on; Python returns None when the loop ends
RECURSIVE ClassLoop(_, _)
ClassLoop(klassen, k) ==
    IF k > Len(MappingKlassen) THEN [none |-> TRUE, klasse |-> <<>>]
    ELSE IF \E j \in 1..Len(klassen) : klassen[j] = MappingKlassen[k].item \o Schuljahr
    THEN [none |-> FALSE, klasse |-> MappingKlassen[k].klasse]
    ELSE ClassLoop(klassen, k + 1)

\* return_class_of_user(user, memberships), lines 677-687
ReturnClassOfUser(user, ms) ==
    LET klassen == CallReturnListOfCoursesOfStudent(<<user.lehrerid, ms>>)
    IN  IF klassen.raised THEN klassen ELSE Returned(ClassLoop(klassen.value, 1))

\* def return_class_of_user(user, memberships)
CallReturnClassOfUser(args) ==
    IF Len(args) = 2 THEN ReturnClassOfUser(args[1], args[2]) ELSE Raised("TypeError")

-----------------------------------------------------------------------------
(* return_initial_password, return_webuntis_uid *)

ReturnInitialPassword(user) ==
    LastN(user.lehrerid, 3) \o LastN(user.username, 2)
        \o Take(StripHyphensFromBirthday(user.birthday), 3) \o Take(user.username, 2)

ReturnWebuntisUid(user) ==
    IF Contains(user.lehrerid, <<"X">>)
    THEN ReturnUsername(user.given, user.name, "kurzform")
    ELSE Drop(user.lehrerid, 10)

-----------------------------------------------------------------------------
(* create_jamf_accounts *)

OrgPrefix == <<"1","6","4","5","0","1","-">>
OrgDomain == <<"@","1","6","4","5","0","1",".","n","r","w",".","s","c","h","u","l","e">>

\* lines 745-767: the line written for a user, without the line break
StudentLine(user, courses, ser) ==
    Join(<< OrgPrefix \o user.username,
            user.username \o OrgDomain,
            Take(user.username, 4),
            Drop(user.username, 4),
            Join(courses, <<",">>),
            ReturnInitialPassword(user) >> \o ser, <<";">>)

\* dict_name_serial: name of a device -> serial number
DictNameSerial == [name \in {"iPad-01"} |-> <<"S","N","1">>]

\* the file f"{klasse_filter}.csv": absent, or the device names of its rows
Rosters ==
    { [exists |-> FALSE, names |-> <<>>],
      [exists |-> TRUE, names |-> <<"iPad-01">>],
      [exists |-> TRUE, names |-> <<"iPad-99">>] }

NoFilter == <<>>
KlasseFilters == {NoFilter, <<"7","d">>, <<"9","a">>}

\* lines 719-733: the roster is read, then the output file is opened with
\* mode "w" and the header is written
CreateJamfAccountsBegin(klasse_filter, roster) ==
    LET readsRoster == klasse_filter # NoFilter /\ roster.exists
        \* the rows of the csv.reader (no row when the file is not read)
        rows == IF readsRoster THEN roster.names ELSE <<>>
        missing == \E k \in 1..Len(roster.names) : roster.names[k] \notin DOMAIN DictNameSerial
        ser_nums == IF readsRoster
                    THEN [k \in 1..Len(roster.names) |-> DictNameSerial[roster.names[k]]]
                    ELSE <<>>
    IN  IF readsRoster /\ missing
        THEN \* line 726: dict_name_serial[rows[0]] raises KeyError
             /\ pc' = "failed"
             /\ err' = "KeyError"
             /\ batch' = [kind |-> "students", klasse_filter |-> klasse_filter,
                          roster |-> rows, i |-> 0, ser_nums |-> <<>>, n |-> 0]
             /\ UNCHANGED outfile
        ELSE /\ pc' = "students_loop"
             /\ batch' = [kind |-> "students", klasse_filter |-> klasse_filter,
                          roster |-> rows, i |-> 0, ser_nums |-> ser_nums, n |-> 0]
             /\ outfile' = [exists |-> TRUE,
                            header |-> IF ser_nums # <<>>
                                       THEN "Username;Email;FirstName;LastName;Groups;Password;SerialNumber"
                                       ELSE "Username;Email;FirstName;LastName;Groups;Password",
                            records |-> <<>>]
             /\ UNCHANGED err

\* lines 736-767: one iteration of the loop, for users[batch.i + 1]
CreateJamfAccountsUser ==
    LET user == users[batch.i + 1]
        klasse == IF batch.klasse_filter # NoFilter
                  THEN CallReturnClassOfUser(<<user>>)
                  ELSE Returned([none |-> TRUE, klasse |-> <<>>])
        skipped == /\ batch.klasse_filter # NoFilter
                   /\ ~klasse.raised
                   /\ (klasse.value.none \/ klasse.value.klasse # batch.klasse_filter)
        courses == CallReturnListOfCoursesOfStudent(<<user.lehrerid, memberships>>)
    IN  IF klasse.raised
        THEN /\ pc' = "failed" /\ err' = klasse.exc
             /\ UNCHANGED <<batch, outfile>>
        ELSE IF skipped
        THEN /\ batch' = [batch EXCEPT !.i = @ + 1]
             /\ UNCHANGED <<pc, err, outfile>>
        ELSE IF courses.raised
        THEN /\ pc' = "failed" /\ err' = courses.exc
             /\ UNCHANGED <<batch, outfile>>
        ELSE IF batch.ser_nums # <<>> /\ batch.n + 1 > Len(batch.ser_nums)
        THEN \* line 759: ser_nums[i] raises IndexError
             /\ pc' = "failed" /\ err' = "IndexError"
             /\ UNCHANGED <<batch, outfile>>
        ELSE /\ outfile' = [outfile EXCEPT !.records =
                    Append(@, StudentLine(user, courses.value,
                        IF batch.ser_nums # <<>>
                        THEN <<batch.ser_nums[batch.n + 1]>> ELSE <<>>))]
             /\ batch' = [batch EXCEPT !.i = @ + 1,
                              !.n = IF batch.ser_nums # <<>> THEN @ + 1 ELSE @]
             /\ UNCHANGED <<pc, err>>

-----------------------------------------------------------------------------
(* create_jamf_accounts_teachers (the definition of line 862, which         *)
(* replaces the one of line 770)                                            *)

GradeMarks == {<<"0","9">>, <<"1","0">>, <<"E","F">>, <<"Q","1">>}
ExcludedGroups == {<<"E","F","L","2","4">>, <<"Q","1","L","2","4">>, <<"Q","2","L","2","4">>}
TeacherSupplement == <<",","i","P","a","d","s","-","L","e","h","r","e","r","z","i","m","m","e","r","_","1","-","1","5",",","i","P","a","d","s","-","L","e","h","r","e","r","z","i","m","m","e","r","_","a","l","l","e",",","i","P","a","d","s","-","L","e","h","r","e","r","z","i","m","m","e","r","_","1","6","-","3","0">>

\* lines 884-889
FilteredGroups(gs) ==
    SelectSeq(gs, LAMBDA group :
        /\ \E sub \in GradeMarks : Contains(group, sub)
        /\ group \notin ExcludedGroups)

\* lines 892-901
UpdatedGroup(group) ==
    IF /\ Len(group) = 6
       /\ SubSeq(group, 1, 2) \in {<<"0","9">>, <<"1","0">>}
       /\ group[4] = "L"
    THEN SubSeq(group, 1, 3) \o <<"S">> \o Drop(group, 4)
    ELSE group

\* lines 885-903: the TeacherGroups field
TeacherGroups(groupsStr) ==
    LET filtered_groups == FilteredGroups(Split(groupsStr, ","))
        updated_groups == [k \in 1..Len(filtered_groups) |-> UpdatedGroup(filtered_groups[k])]
    IN  Join(updated_groups, <<",">>) \o TeacherSupplement

\* email_to_kuerzel.get(email_lower, return_webuntis_uid(user)), lines 906-909
EmailKuerzel(email_to_kuerzel, user) ==
    IF Lower(user.email) \in DOMAIN email_to_kuerzel
    THEN email_to_kuerzel[Lower(user.email)]
    ELSE ReturnWebuntisUid(user)

\* lines 912-928: the line written for a user, without the line break
TeacherLine(email_to_kuerzel, user, groupsStr) ==
    LET email_kuerzel == EmailKuerzel(email_to_kuerzel, user)
    IN  Join(<< OrgPrefix \o ReturnUsername(email_kuerzel, <<>>, "kurzform"),
                ReturnUsername(email_kuerzel, <<>>, "kurzform") \o OrgDomain,
                email_kuerzel,
                email_kuerzel,
                TeacherGroups(groupsStr),
                <<"A","l","l","e","L">>,
                ReturnInitialPassword(user) >>, <<";">>)

\* the email_to_kuerzel argument: lower-case email -> short code
EmailToKuerzel == [email \in {<<"j",".","m","@","x",".","d","e">>} |-> <<"M","S","T">>]

\* lines 872-874
CreateJamfAccountsTeachersBegin ==
    /\ pc' = "teachers_loop"
    /\ batch' = [kind |-> "teachers", klasse_filter |-> NoFilter, roster |-> <<>>,
                 i |-> 0, ser_nums |-> <<>>, n |-> 0]
    /\ outfile' = [exists |-> TRUE,
                   header |-> "Username;Email;FirstName;LastName;TeacherGroups;Groups;Password",
                   records |-> <<>>]
    /\ UNCHANGED err

\* lines 876-928: one iteration of the loop, for users[batch.i + 1]
CreateJamfAccountsTeachersUser ==
    LET user == users[batch.i + 1]
        courses == CallReturnListOfCoursesOfStudent(<<user.lehrerid, memberships>>)
        groupsStr == Join(courses.value, <<",">>)
    IN  IF courses.raised
        THEN /\ pc' = "failed" /\ err' = courses.exc
             /\ UNCHANGED <<batch, outfile>>
        ELSE /\ outfile' = IF Contains(groupsStr, <<"A","l","l","e","L">>)
                           THEN [outfile EXCEPT !.records =
                                    Append(@, TeacherLine(EmailToKuerzel, user, groupsStr))]
                           ELSE outfile
             /\ batch' = [batch EXCEPT !.i = @ + 1]
             /\ UNCHANGED <<pc, err>>

-----------------------------------------------------------------------------
(* A run: the document is parsed (users, then memberships), then one of the *)
(* two batches writes its file                                              *)

BatchPersonPool == {P_Luca, P_Joerg, P_Rene}

BatchEdges ==
    { <<G_AlleS, P_Luca.id>>, <<G_07D, P_Luca.id>>, <<G_Missing, P_Luca.id>>,
      <<G_AlleL, P_Joerg.id>>, <<G_09A, P_Joerg.id>> }

InitBatch ==
    /\ users = <<>>
    /\ birthday = [bound |-> FALSE, val |-> <<>>]
    /\ elems = <<>>
    /\ memberships = <<>>
    /\ groups = RenamedGroups
    /\ pc = "parse_users"
    /\ err = ""
    /\ call = NoCall
    /\ batch = NoBatch
    /\ outfile = NoFile
    /\ gelems = <<>>
    /\ lastparent = <<>>
    /\ rename = NoRename
    /\ export = NoExport

BatchParseUser ==
    /\ pc = "parse_users"
    /\ Len(elems) < MaxBatchUsers
    /\ \E p \in BatchPersonPool :
           /\ \A k \in 1..Len(elems) : elems[k].id # p.id
           /\ ParseUserStep(p)
    /\ UNCHANGED <<memberships, groups, call, batch, outfile, exportVars>>

\* parse_xml, lines 420-426: parse_memberships runs after parse_users
BatchParseUsersDone ==
    /\ pc = "parse_users"
    /\ pc' = "parse_memberships"
    /\ UNCHANGED <<users, birthday, elems, memberships, groups, err, call, batch, outfile, exportVars>>

BatchParseMembership ==
    /\ pc = "parse_memberships"
    /\ Len(memberships) < MaxBatchMemberships
    /\ \E e \in BatchEdges : ParseMembershipStep(e[1], e[2])
    /\ UNCHANGED <<users, birthday, elems, groups, pc, err, call, batch, outfile, exportVars>>

StudentsBegin ==
    /\ pc = "parse_memberships"
    /\ \E klasse_filter \in KlasseFilters, roster \in Rosters :
           CreateJamfAccountsBegin(klasse_filter, roster)
    /\ UNCHANGED <<users, birthday, elems, memberships, groups, call, exportVars>>

StudentsUser ==
    /\ pc = "students_loop"
    /\ batch.i < Len(users)
    /\ CreateJamfAccountsUser
    /\ UNCHANGED <<users, birthday, elems, memberships, groups, call, exportVars>>

\* the loop is exhausted: the with block closes the file and the call returns
StudentsEnd ==
    /\ pc = "students_loop"
    /\ batch.i = Len(users)
    /\ pc' = "done"
    /\ UNCHANGED <<users, birthday, elems, memberships, groups, err, call, batch, outfile, exportVars>>

TeachersBegin ==
    /\ pc = "parse_memberships"
    /\ CreateJamfAccountsTeachersBegin
    /\ UNCHANGED <<users, birthday, elems, memberships, groups, call, exportVars>>

TeachersUser ==
    /\ pc = "teachers_loop"
    /\ batch.i < Len(users)
    /\ CreateJamfAccountsTeachersUser
    /\ UNCHANGED <<users, birthday, elems, memberships, groups, call, exportVars>>

TeachersEnd ==
    /\ pc = "teachers_loop"
    /\ batch.i = Len(users)
    /\ pc' = "done"
    /\ UNCHANGED <<users, birthday, elems, memberships, groups, err, call, batch, outfile, exportVars>>

NextBatch ==
    \/ BatchParseUser
    \/ BatchParseUsersDone
    \/ BatchParseMembership
    \/ StudentsBegin
    \/ StudentsUser
    \/ StudentsEnd
    \/ TeachersBegin
    \/ TeachersUser
    \/ TeachersEnd

SpecBatch == InitBatch /\ [][NextBatch]_vars

-----------------------------------------------------------------------------
(* return_class_of_user called on its own *)

G_09AS == <<"g","6">>

\* a renamed group list with the student groups of two classes
ClassGroups == RenamedGroups \o <<Group(G_09AS, <<"0", "9", "A", "S", "2", "4">>, <<>>)>>

ClassGroupIds == {G_AlleS, G_07D, G_09AS}

\* the User objects the function is called with (it reads user.lehrerid only)
ClassUsers == {[lehrerid |-> P_Luca.id], [lehrerid |-> P_Rene.id]}

InitClass ==
    /\ users = <<>>
    /\ birthday = [bound |-> FALSE, val |-> <<>>]
    /\ elems = <<>>
    /\ memberships = <<>>
    /\ groups = ClassGroups
    /\ pc = "parse_memberships"
    /\ err = ""
    /\ call = NoCall
    /\ batch = NoBatch
    /\ outfile = NoFile
    /\ gelems = <<>>
    /\ lastparent = <<>>
    /\ rename = NoRename
    /\ export = NoExport

ClassParseMembership ==
    /\ pc = "parse_memberships"
    /\ Len(memberships) < MaxMemberships
    /\ \E g \in ClassGroupIds, u \in ClassUsers : ParseMembershipStep(g, u.lehrerid)
    /\ UNCHANGED <<users, birthday, elems, groups, pc, err, call, batch, outfile, exportVars>>

\* return_class_of_user(user, memberships)
ReturnClass ==
    /\ pc = "parse_memberships"
    /\ \E user \in ClassUsers :
           call' = [studentid |-> user.lehrerid, done |-> TRUE,
                    ret |-> CallReturnClassOfUser(<<user, memberships>>)]
    /\ pc' = "returned"
    /\ UNCHANGED <<users, birthday, elems, memberships, groups, err, batch, outfile, exportVars>>

NextClass == ClassParseMembership \/ ReturnClass

SpecClass == InitClass /\ [][NextClass]_vars

-----------------------------------------------------------------------------
(* rename_groups *)

\* s.replace(old, new): non-overlapping occurrences, left to right
RECURSIVE Replace(_, _, _)
Replace(s, old, new) ==
    IF Len(s) < Len(old) THEN s
    ELSE IF SubSeq(s, 1, Len(old)) = old
         THEN new \o Replace(SubSeq(s, Len(old) + 1, Len(s)), old, new)
         ELSE <<s[1]>> \o Replace(Tail(s), old, new)

\* s.rfind(c) for a one-character c: the 0-based index of the last c, or -1
RFind(s, c) ==
    IF \A k \in 1..Len(s) : s[k] # c THEN -1
    ELSE (CHOOSE k \in 1..Len(s) : s[k] = c /\ \A j \in (k + 1)..Len(s) : s[j] # c) - 1

\* the bound i of a slice of a str of length n, as Python normalises it
SliceIndex(i, n) == IF i < 0 THEN Max(i + n, 0) ELSE Min(i, n)

\* s[a:b]
Slice(s, a, b) ==
    LET lo == SliceIndex(a, Len(s))
        hi == SliceIndex(b, Len(s))
    IN  IF lo >= hi THEN <<>> ELSE SubSeq(s, lo + 1, hi)

DigitChars == {"0", "1", "2", "3", "4", "5", "6", "7", "8", "9"}

\* re.search(r"\d", s).group(0), "" when there is no digit (the except branch)
FirstDigit(s) ==
    IF \A k \in 1..Len(s) : s[k] \notin DigitChars THEN <<>>
    ELSE <<s[CHOOSE k \in 1..Len(s) :
                 s[k] \in DigitChars /\ \A j \in 1..(k - 1) : s[j] \notin DigitChars]>>

\* every rule that builds a name ends with these replacements of the role words
ReplaceRoles(s) == Replace(Replace(s, <<"S", "c", "h", "u", "e", "l", "e", "r">>, <<"S">>), <<"L", "e", "h", "r", "e", "r">>, <<"L">>)

\* the "Klasse" rule without the school-year suffix
KlasseRuleNoSuffix(name, schuljahr) ==
    IF Contains(name, <<"K", "l", "a", "s", "s", "e">>)
    THEN Replace(Replace(Replace(Replace(
             ReplaceRoles(Replace(Drop(name, 7), <<" ">>, <<>>)),
             <<"-", "-">>, <<>>), <<"-">>, <<>>), <<")">>, <<>>), <<"U", "N", "E", "S", "C", "O">>, <<"U">>)
    ELSE name

\* lines 250-255: the "Klasse" rule
KlasseRule(name, schuljahr) ==
    IF Contains(name, <<"K", "l", "a", "s", "s", "e">>)
    THEN Replace(Replace(Replace(Replace(
             ReplaceRoles(Replace(Drop(name, 7), <<" ">>, <<>>)),
             <<"-", "-">>, <<>>), <<"-">>, <<>>), <<")">>, <<>>), <<"U", "N", "E", "S", "C", "O">>, <<"U">>) \o schuljahr
    ELSE name

\* lines 272-286 and 303-317: the name built from the fields of the parenthesis;
\* indexing templist[1..3] of a shorter list raises IndexError
TemplistName(templist, name, schuljahr) ==
    IF Len(templist) < 4 THEN [raised |-> "IndexError", name |-> name]
    ELSE LET tier == IF templist[2] = <<"G", "K">> \/ templist[2] = <<"L", "K">>
                     THEN templist[2] \o FirstDigit(name)
                     ELSE <<>>
         IN  [raised |-> "",
              name |-> Replace(Replace(
                           ReplaceRoles(templist[1] \o tier \o templist[3] \o templist[4]),
                           <<"-", "-">>, <<"-">>), <<")">>, <<>>) \o schuljahr]

\* lines 258-317: the "BI8" rule, else the "(" rule
CourseRule(name, schuljahr) ==
    LET start == RFind(name, "(")
        ende == RFind(name, ")")
    IN  IF Contains(name, <<"B", "I", "8">>)
        THEN TemplistName(
                 Split(Replace(Replace(Slice(name, start - 3, ende), <<" ">>, <<>>),
                               <<"(", "9">>, <<>>), ","),
                 name, schuljahr)
        ELSE IF Contains(name, <<"(">>)
        THEN TemplistName(
                 Split(Replace(Replace(Slice(name, start + 1, ende), <<" ">>, <<>>),
                               <<"U", "N", "E", "S", "C", "O">>, <<"U">>), ","),
                 name, schuljahr)
        ELSE [raised |-> "", name |-> name]

\* lines 320-335: the two catch-all rules
AlleRule(name) ==
    LET n1 == IF Contains(name, <<"A", "l", "l", "e", " ", "-", " ", "S", "c", "h", "u", "e", "l", "e", "r">>)
              THEN Replace(Replace(ReplaceRoles(<<"A", "l", "l", "e", "-", "S", "c", "h", "u", "e", "l", "e", "r">>), <<")">>, <<>>), <<"-">>, <<>>)
              ELSE name
    IN  IF Contains(n1, <<"A", "l", "l", "e", " ", "-", " ", "L", "e", "h", "r", "e", "r">>)
        THEN Replace(Replace(ReplaceRoles(<<"A", "l", "l", "e", "-", "L", "e", "h", "r", "e", "r">>), <<")">>, <<>>), <<"-">>, <<>>)
        ELSE n1

\* mappings.mappinggroups: canonical code -> target group identifier, and the
\* raw names of the subject-area groups -> their canonical name (the empty string)
MappingGroups ==
    [code \in {<<"0", "7", "D", "S", "2", "4">>, <<"F", "a", "c", "h", " ", "M", "a", "t", "h", "e", "m", "a", "t", "i", "k">>, <<"B", "e", "r", "e", "i", "c", "h", " ", "S", "p", "o", "r", "t">>} |->
        IF code = <<"0", "7", "D", "S", "2", "4">> THEN <<"K", "l", "a", "s", "s", "e", "-", "7", "d">> ELSE <<>>]

\* lines 337-343: group.name = mappings.mappinggroups[group.name] when the name
\* contains key; a name that is not in the dict raises KeyError
MappingRule(r, key) ==
    IF r.raised # "" \/ ~Contains(r.name, key) THEN r
    ELSE IF r.name \in DOMAIN MappingGroups
         THEN [raised |-> "", name |-> MappingGroups[r.name],
               lookups |-> Append(r.lookups, r.name)]
         ELSE [raised |-> "KeyError", name |-> r.name,
               lookups |-> Append(r.lookups, r.name)]

\* the body of the loop of rename_groups for one group: the rules run one after
\* the other on the name as the previous rule left it
RenameGroup(name, schuljahr) ==
    LET c == CourseRule(KlasseRule(name, schuljahr), schuljahr)
    IN  IF c.raised # ""
        THEN [raised |-> c.raised, name |-> c.name, lookups |-> <<>>]
        ELSE MappingRule(
                 MappingRule([raised |-> "", name |-> AlleRule(c.name), lookups |-> <<>>],
                             <<"F", "a", "c", "h">>),
                 <<"B", "e", "r", "e", "i", "c", "h">>)

\* one iteration of `for group in groups`
RenameGroupsIter(schuljahr) ==
    LET k == rename.i + 1
        r == RenameGroup(groups[k].name, schuljahr)
    IN  /\ groups' = [groups EXCEPT ![k].name = r.name]
        /\ rename' = [i |-> IF r.raised = "" THEN k ELSE rename.i,
                      lookups |-> rename.lookups \o r.lookups]
        /\ IF r.raised = ""
           THEN UNCHANGED <<pc, err>>
           ELSE pc' = "failed" /\ err' = r.raised

\* a group element of the document: sourcedid, short description, and the
\* optional relationship (the parent group)
GroupElem(id, name, hasParent, parentid) ==
    [id |-> id, name |-> name, hasParent |-> hasParent, parentid |-> parentid]

GE_Klasse07D == GroupElem(<<"k", "1">>, <<"K", "l", "a", "s", "s", "e", " ", "0", "7", "D", " ", "S", "c", "h", "u", "e", "l", "e", "r">>, TRUE, <<"s", "1">>)
GE_Klasse09A == GroupElem(<<"k", "2">>, <<"K", "l", "a", "s", "s", "e", " ", "0", "9", "A", " ", "-", " ", "L", "e", "h", "r", "e", "r">>, FALSE, <<>>)
GE_AlleS == GroupElem(<<"a", "1">>, <<"A", "l", "l", "e", " ", "-", " ", "S", "c", "h", "u", "e", "l", "e", "r">>, FALSE, <<>>)
GE_AlleL == GroupElem(<<"a", "2">>, <<"A", "l", "l", "e", " ", "-", " ", "L", "e", "h", "r", "e", "r">>, FALSE, <<>>)
GE_Mathe == GroupElem(<<"c", "1">>, <<"M", "a", "t", "h", "e", " ", "1", " ", "(", "M", ",", " ", "G", "K", ",", " ", "Q", "1", ",", " ", "X", "Y", ")">>, TRUE, <<"s", "2">>)
GE_Kunst == GroupElem(<<"c", "2">>, <<"K", "u", "n", "s", "t", " ", "(", "K", "U", ",", " ", ",", " ", "0", "7", ",", " ", "A", "B", ")">>, FALSE, <<>>)
GE_Chor == GroupElem(<<"c", "3">>, <<"C", "h", "o", "r", " ", "(", "C", "H", ",", " ", "Q", "1", ")">>, FALSE, <<>>)
GE_Sport == GroupElem(<<"c", "4">>, <<"S", "p", "o", "r", "t", " ", "(", "S", "P", ",", " ", "G", "K">>, FALSE, <<>>)
GE_BI8 == GroupElem(<<"c", "5">>, <<"W", "P", " ", "B", "I", "8", " ", "(", "9", ",", " ", "B", "I", "8", ",", " ", "A", "B", ",", " ", "C", "D", ")">>, FALSE, <<>>)
GE_KlasseKurs == GroupElem(<<"c", "6">>, <<"K", "l", "a", "s", "s", "e", " ", "0", "5", "A", " ", "(", "M", "a", ",", " ", "G", "K", ",", " ", "0", "5", ",", " ", "X", "Y", ")">>, FALSE, <<>>)
GE_Lehrerzimmer == GroupElem(<<"r", "1">>, <<"L", "e", "h", "r", "e", "r", "z", "i", "m", "m", "e", "r">>, FALSE, <<>>)
GE_FachMathe == GroupElem(<<"f", "1">>, <<"F", "a", "c", "h", " ", "M", "a", "t", "h", "e", "m", "a", "t", "i", "k">>, FALSE, <<>>)
GE_FachKunst == GroupElem(<<"f", "2">>, <<"F", "a", "c", "h", " ", "K", "u", "n", "s", "t">>, FALSE, <<>>)
GE_FachBio == GroupElem(<<"f", "3">>, <<"F", "a", "c", "h", " ", "B", "i", "o", " ", "(", "B", "I", ",", " ", "G", "K", ",", " ", "0", "9", ",", " ", "A", "B", ")">>, FALSE, <<>>)
GE_BereichSport == GroupElem(<<"f", "4">>, <<"B", "e", "r", "e", "i", "c", "h", " ", "S", "p", "o", "r", "t">>, FALSE, <<>>)

GroupPool ==
    {GE_Klasse07D, GE_Klasse09A, GE_AlleS, GE_AlleL, GE_Mathe, GE_Kunst, GE_Chor,
     GE_Sport, GE_BI8, GE_KlasseKurs, GE_Lehrerzimmer, GE_FachMathe, GE_FachKunst,
     GE_FachBio, GE_BereichSport}

\* parse_groups, lines 193-213: one group element
ParseGroupStep(e) ==
    LET p == IF e.hasParent THEN e.parentid ELSE lastparent
    IN  /\ gelems' = Append(gelems, e)
        /\ lastparent' = p
        /\ groups' = Append(groups, Group(e.id, e.name, p))

InitRename ==
    /\ users = <<>>
    /\ birthday = [bound |-> FALSE, val |-> <<>>]
    /\ elems = <<>>
    /\ memberships = <<>>
    /\ groups = <<>>
    /\ pc = "parse_groups"
    /\ err = ""
    /\ call = NoCall
    /\ batch = NoBatch
    /\ outfile = NoFile
    /\ gelems = <<>>
    /\ lastparent = <<>>
    /\ rename = NoRename
    /\ export = NoExport

ParseGroup ==
    /\ pc = "parse_groups"
    /\ Len(gelems) < MaxGroups
    /\ \E e \in GroupPool :
           \* every group element of a document has its own sourcedid
           /\ \A k \in 1..Len(gelems) : gelems[k].id # e.id
           /\ ParseGroupStep(e)
    /\ UNCHANGED <<users, birthday, elems, memberships, pc, err, call, batch, outfile,
                   rename, export>>

\* rename_groups is called on the parsed list
RenameGroupsCall ==
    /\ pc = "parse_groups"
    /\ pc' = "rename_groups"
    /\ UNCHANGED <<users, birthday, elems, memberships, groups, err, call, batch, outfile,
                   exportVars>>

RenameGroupsStep ==
    /\ pc = "rename_groups"
    /\ rename.i < Len(groups)
    /\ RenameGroupsIter(Schuljahr)
    /\ UNCHANGED <<users, birthday, elems, memberships, call, batch, outfile,
                   gelems, lastparent, export>>

\* the loop is exhausted: rename_groups returns
RenameGroupsReturn ==
    /\ pc = "rename_groups"
    /\ rename.i = Len(groups)
    /\ pc' = "done"
    /\ UNCHANGED <<users, birthday, elems, memberships, groups, err, call, batch, outfile,
                   exportVars>>

NextRename ==
    \/ ParseGroup
    \/ RenameGroupsCall
    \/ RenameGroupsStep
    \/ RenameGroupsReturn

SpecRename == InitRename /\ [][NextRename]_vars

-----------------------------------------------------------------------------
(* parse_year *)

DigitSeq == <<"0", "1", "2", "3", "4", "5", "6", "7", "8", "9">>

\* f"{n}" for a natural number n
RECURSIVE Str(_)
Str(n) == IF n < 10 THEN <<DigitSeq[n + 1]>> ELSE Str(n \div 10) \o <<DigitSeq[(n % 10) + 1]>>

\* f"20{i}{j}/{i}{j+1}"
PatternPlain(i, j) == <<"2", "0">> \o Str(i) \o Str(j) \o <<"/">> \o Str(i) \o Str(j + 1)

\* f"20{i}{j}/{i+1}0"
PatternDecade(i, j) == <<"2", "0">> \o Str(i) \o Str(j) \o <<"/">> \o Str(i + 1) \o <<"0">>

\* f.read() on the handle opened at line 450: the first call returns the
\* content of the file, every later call on the same handle returns ""
Read(content, nth) == IF nth = 1 THEN content ELSE <<>>

\* lines 449-463, the body of the loops for the pair (i, j) = (n \div 10, n % 10):
\* one of the two tests succeeds
YearMatches(content, n) ==
    LET i == n \div 10
        j == n % 10
    IN  \/ Contains(Read(content, 1), PatternPlain(i, j))
        \/ Contains(Read(content, 2), PatternDecade(i, j))

\* parse_year(xmlfile), for the content of the file: the loops of lines 447-448
\* return at the first pair that matches; Python returns None when they end
ParseYear(content) ==
    IF \A n \in 0..99 : ~YearMatches(content, n) THEN [none |-> TRUE, val |-> <<>>]
    ELSE LET n == CHOOSE n \in 0..99 :
                      YearMatches(content, n) /\ \A m \in 0..(n - 1) : ~YearMatches(content, m)
         IN  [none |-> FALSE, val |-> Str(n \div 10) \o Str(n % 10)]

\* the school-year string of the year 20yy: "20yy/zz" with zz = yy + 1
TwoDigits(y) == Str(y \div 10) \o Str(y % 10)
SchoolYear(y) == <<"2", "0">> \o TwoDigits(y) \o <<"/">> \o TwoDigits(y + 1)

\* the input files: a school-year string alone, one inside an element, and a
\* file without any
YearDocs ==
    {SchoolYear(y) : y \in 0..MaxYear}
        \cup {<<"<", "c", "o", "m", "m", "e", "n", "t", "s", ">", "S", "c", "h", "u", "l", "j", "a", "h", "r", " ">> \o SchoolYear(y) \o <<"<", "/", "c", "o", "m", "m", "e", "n", "t", "s", ">">> : y \in 0..MaxYear}
        \cup {<<"<", "c", "o", "m", "m", "e", "n", "t", "s", ">", "<", "/", "c", "o", "m", "m", "e", "n", "t", "s", ">">>}

InitYear ==
    /\ users = <<>>
    /\ birthday = [bound |-> FALSE, val |-> <<>>]
    /\ elems = <<>>
    /\ memberships = <<>>
    /\ groups = <<>>
    /\ pc = "parse_year"
    /\ err = ""
    /\ call = NoCall
    /\ batch = NoBatch
    /\ outfile = NoFile
    /\ gelems = <<>>
    /\ lastparent = <<>>
    /\ rename = NoRename
    /\ \E doc \in YearDocs : export = [NoExport EXCEPT !.doc = doc]

\* parse_year(xmlfile)
ParseYearCall ==
    /\ pc = "parse_year"
    /\ LET r == ParseYear(export.doc)
       IN  export' = [export EXCEPT !.ret = [done |-> TRUE, none |-> r.none, val |-> r.val]]
    /\ pc' = "returned"
    /\ UNCHANGED <<users, birthday, elems, memberships, groups, err, call, batch, outfile,
                   gelems, lastparent, rename>>

NextYear == ParseYearCall

SpecYear == InitYear /\ [][NextYear]_vars

-----------------------------------------------------------------------------
(* main_export *)

\* export_users_to_csv: the rows written, the header first
UsersCsvRows(us) ==
    << <<<<"g", "i", "v", "e", "n">>, <<"n", "a", "m", "e">>, <<"u", "s", "e", "r", "n", "a", "m", "e">>, <<"e", "m", "a", "i", "l">>, <<"k", "u", "e", "r", "z", "e", "l">>>> >>
        \o [k \in 1..Len(us) |->
               <<us[k].given, us[k].name, us[k].username, Lower(us[k].email), us[k].username>>]

\* the rows of export_groups_to_csv with the names as rename_groups would leave them
GroupsCsvRowsRenamed(gs) ==
    << <<<<"g", "r", "o", "u", "p", "i", "d">>, <<"p", "a", "r", "e", "n", "t">>, <<"n", "a", "m", "e">>>> >>
        \o [k \in 1..Len(gs) |->
               <<gs[k].groupid, gs[k].parent, RenameGroup(gs[k].name, Schuljahr).name>>]

\* export_groups_to_csv: the rows written, the header first
GroupsCsvRows(gs) ==
    << <<<<"g", "r", "o", "u", "p", "i", "d">>, <<"p", "a", "r", "e", "n", "t">>, <<"n", "a", "m", "e">>>> >>
        \o [k \in 1..Len(gs) |-> <<gs[k].groupid, gs[k].parent, gs[k].name>>]

\* the input files of main_export: one with a school year in the plain form,
\* one with a school year in the decade form
ExportDocs ==
    {<<"<", "c", "o", "m", "m", "e", "n", "t", "s", ">", "S", "c", "h", "u", "l", "j", "a", "h", "r", " ">> \o SchoolYear(24) \o <<"<", "/", "c", "o", "m", "m", "e", "n", "t", "s", ">">>,
     <<"<", "c", "o", "m", "m", "e", "n", "t", "s", ">", "S", "c", "h", "u", "l", "j", "a", "h", "r", " ">> \o SchoolYear(19) \o <<"<", "/", "c", "o", "m", "m", "e", "n", "t", "s", ">">>}

ExportPersonPool == {P_Luca, P_Joerg}
ExportGroupPool == {GE_Klasse07D, GE_AlleS, GE_Mathe, GE_Chor, GE_FachMathe, GE_FachKunst}
ExportEdges == {<<GE_Klasse07D.id, P_Luca.id>>}

InitExport ==
    /\ users = <<>>
    /\ birthday = [bound |-> FALSE, val |-> <<>>]
    /\ elems = <<>>
    /\ memberships = <<>>
    /\ groups = <<>>
    /\ pc = "main_export"
    /\ err = ""
    /\ call = NoCall
    /\ batch = NoBatch
    /\ outfile = NoFile
    /\ gelems = <<>>
    /\ lastparent = <<>>
    /\ rename = NoRename
    /\ \E doc \in ExportDocs : export = [NoExport EXCEPT !.doc = doc]

\* line 973: schuljahr = parse_year(inputaktuell).replace("/", ""); None has
\* no attribute replace
ExportParseYear ==
    /\ pc = "main_export"
    /\ LET r == ParseYear(export.doc)
       IN  IF r.none
           THEN /\ pc' = "failed"
                /\ err' = "AttributeError"
                /\ export' = [export EXCEPT !.ret = [done |-> TRUE, none |-> TRUE, val |-> <<>>]]
           ELSE /\ pc' = "parse_users"
                /\ UNCHANGED err
                /\ export' = [export EXCEPT
                                  !.ret = [done |-> TRUE, none |-> FALSE, val |-> r.val],
                                  !.schuljahr = [bound |-> TRUE,
                                                 val |-> Replace(r.val, <<"/">>, <<>>)]]
    /\ UNCHANGED <<users, birthday, elems, memberships, groups, call, batch, outfile,
                   gelems, lastparent, rename>>

ExportParseUser ==
    /\ pc = "parse_users"
    /\ export.schuljahr.bound
    /\ Len(elems) < MaxExportUsers
    /\ \E p \in ExportPersonPool :
           /\ \A k \in 1..Len(elems) : elems[k].id # p.id
           /\ ParseUserStep(p)
    /\ UNCHANGED <<memberships, groups, call, batch, outfile, exportVars>>

\* parse_xml, lines 420-423: parse_groups runs after parse_users
ExportParseUsersDone ==
    /\ pc = "parse_users"
    /\ export.schuljahr.bound
    /\ pc' = "parse_groups"
    /\ UNCHANGED <<users, birthday, elems, memberships, groups, err, call, batch, outfile,
                   exportVars>>

ExportParseGroup ==
    /\ pc = "parse_groups"
    /\ export.schuljahr.bound
    /\ Len(gelems) < MaxGroups
    /\ \E e \in ExportGroupPool :
           /\ \A k \in 1..Len(gelems) : gelems[k].id # e.id
           /\ ParseGroupStep(e)
    /\ UNCHANGED <<users, birthday, elems, memberships, pc, err, call, batch, outfile,
                   rename, export>>

\* parse_xml, lines 423-426: parse_memberships runs after parse_groups
ExportParseGroupsDone ==
    /\ pc = "parse_groups"
    /\ export.schuljahr.bound
    /\ pc' = "parse_memberships"
    /\ UNCHANGED <<users, birthday, elems, memberships, groups, err, call, batch, outfile,
                   exportVars>>

ExportParseMembership ==
    /\ pc = "parse_memberships"
    /\ export.schuljahr.bound
    /\ Len(memberships) < MaxExportMemberships
    /\ \E e \in ExportEdges : ParseMembershipStep(e[1], e[2])
    /\ UNCHANGED <<users, birthday, elems, groups, pc, err, call, batch, outfile, exportVars>>

\* line 977: export_users_to_csv(users, f"users{exportdate}.csv")
ExportUsersToCsv ==
    /\ pc = "parse_memberships"
    /\ export.schuljahr.bound
    /\ export' = [export EXCEPT !.users_csv = [exists |-> TRUE, rows |-> UsersCsvRows(users)]]
    /\ pc' = "export_groups"
    /\ UNCHANGED <<users, birthday, elems, memberships, groups, err, call, batch, outfile,
                   gelems, lastparent, rename>>

\* line 978: export_groups_to_csv(groups, f"groups{exportdate}.csv")
ExportGroupsToCsv ==
    /\ pc = "export_groups"
    /\ export' = [export EXCEPT !.groups_csv = [exists |-> TRUE, rows |-> GroupsCsvRows(groups)]]
    /\ pc' = "export_rename"
    /\ UNCHANGED <<users, birthday, elems, memberships, groups, err, call, batch, outfile,
                   gelems, lastparent, rename>>

\* line 981: rename_groups(groups), one iteration of its loop
ExportRenameStep ==
    /\ pc = "export_rename"
    /\ rename.i < Len(groups)
    /\ RenameGroupsIter(export.schuljahr.val)
    /\ UNCHANGED <<users, birthday, elems, memberships, call, batch, outfile,
                   gelems, lastparent, export>>

\* line 984: rename_groups has returned;
\* export_groups_to_csv(groups, f"groups_{exportdate}_renamed.csv")
ExportRenamedToCsv ==
    /\ pc = "export_rename"
    /\ rename.i = Len(groups)
    /\ export' = [export EXCEPT !.renamed_csv = [exists |-> TRUE, rows |-> GroupsCsvRows(groups)]]
    /\ pc' = "done"
    /\ UNCHANGED <<users, birthday, elems, memberships, groups, err, call, batch, outfile,
                   gelems, lastparent, rename>>

NextExport ==
    \/ ExportParseYear
    \/ ExportParseUser
    \/ ExportParseUsersDone
    \/ ExportParseGroup
    \/ ExportParseGroupsDone
    \/ ExportParseMembership
    \/ ExportUsersToCsv
    \/ ExportGroupsToCsv
    \/ ExportRenameStep
    \/ ExportRenamedToCsv

SpecExport == InitExport /\ [][NextExport]_vars

-----------------------------------------------------------------------------
(* parse_users on a document that holds test accounts *)

P_TestLehrer1 ==
    Person(<<"T", "-", "1">>, <<"L", "e", "h", "r", "e", "r", "1">>, <<"T", "e", "s", "t">>, "faculty", <<>>, FALSE, <<>>)
P_TestLehrerA ==
    Person(<<"T", "-", "2">>, <<"L", "e", "h", "r", "e", "r">>, <<"T", "e", "s", "t">>, "faculty", <<>>, FALSE, <<>>)
P_TestLehrerB ==
    Person(<<"T", "-", "3">>, <<"L", "e", "h", "r", "e", "r">>, <<"T", "e", "s", "t">>, "faculty", <<>>, FALSE, <<>>)

TestPersonPool == {P_Michael, P_Michaela, P_Luca, P_TestLehrer1, P_TestLehrerA, P_TestLehrerB}

TestParseUser ==
    /\ pc = "parse_users"
    /\ Len(elems) < MaxUsers
    /\ \E p \in TestPersonPool :
           /\ \A k \in 1..Len(elems) : elems[k].id # p.id
           /\ ParseUserStep(p)
    /\ UNCHANGED <<memberships, groups, call, batch, outfile, exportVars>>

NextTestAccounts == TestParseUser

SpecTestAccounts == InitUsers /\ [][NextTestAccounts]_vars

-----------------------------------------------------------------------------
(* main, main_generate_kuerzel: the two modes of a run.  The files of the   *)
(* working directory outlive a run: export.users_csv is users{exportdate}   *)
(* .csv, export.renamed_csv is groups_{exportdate}_renamed.csv and outfile  *)
(* is ./csv/08-jamf{exportdate}.csv.  batch.kind holds args.option of a run *)
(* in generate_kuerzel mode.                                                *)

IsFileAlways(f) == TRUE

\* os.path.isfile
IsFile(f) == f.exists

\* def create_jamf_accounts_teachers(nameOfOutputCsv, email_to_kuerzel, users,
\*                                   memberships, klasse_filter=None)
CallCreateJamfAccountsTeachers(args) ==
    IF Len(args) \in {4, 5} THEN Returned(<<>>) ELSE Raised("TypeError")

\* a staff file left by an earlier batch
OldStaffFile ==
    [exists |-> TRUE,
     header |-> "Username;Email;FirstName;LastName;TeacherGroups;Groups;Password",
     records |-> <<<<"1", "6", "4", "5", "0", "1", "-", "m", "s", "t", ";", "m", "s", "t", "@", "1", "6", "4", "5", "0", "1", ".", "n", "r", "w", ".", "s", "c", "h", "u", "l", "e", ";", "M", "S", "T", ";", "M", "S", "T", ";", "0", "9", "A", "S", "2", "4", ",", "i", "P", "a", "d", "s", "-", "L", "e", "h", "r", "e", "r", "z", "i", "m", "m", "e", "r", "_", "1", "-", "1", "5", ",", "i", "P", "a", "d", "s", "-", "L", "e", "h", "r", "e", "r", "z", "i", "m", "m", "e", "r", "_", "a", "l", "l", "e", ",", "i", "P", "a", "d", "s", "-", "L", "e", "h", "r", "e", "r", "z", "i", "m", "m", "e", "r", "_", "1", "6", "-", "3", "0", ";", "A", "l", "l", "e", "L", ";", "M", "E", "I", "e", "r", "j", "o">>>>]

\* the working directory before the first run: each export either absent or
\* as main_export writes it for an input without users and groups
InitKuerzel ==
    /\ users = <<>>
    /\ birthday = [bound |-> FALSE, val |-> <<>>]
    /\ elems = <<>>
    /\ memberships = <<>>
    /\ groups = <<>>
    /\ pc = "main"
    /\ err = ""
    /\ call = NoCall
    /\ batch = NoBatch
    /\ outfile \in {NoFile, OldStaffFile}
    /\ gelems = <<>>
    /\ lastparent = <<>>
    /\ rename = NoRename
    /\ \E doc \in ExportDocs :
       \E u \in {NoCsv, [exists |-> TRUE, rows |-> UsersCsvRows(<<>>)]} :
       \E r \in {NoCsv, [exists |-> TRUE, rows |-> GroupsCsvRows(<<>>)]} :
           export = [NoExport EXCEPT !.doc = doc, !.users_csv = u, !.renamed_csv = r]

\* lines 1028-1029: option "export"
MainExport ==
    /\ pc = "main"
    /\ pc' = "main_export"
    /\ UNCHANGED <<users, birthday, elems, memberships, groups, err, call, batch, outfile,
                   exportVars>>

\* lines 1030-1037: option "generate_kuerzel", in a working directory as it is
\* before any run or as a run of main_export has left it; a run starts with
\* nothing in memory
MainGenerateKuerzel ==
    /\ \/ pc = "main"
       \/ pc \in {"done", "failed"} /\ batch = NoBatch
    /\ users' = <<>>
    /\ birthday' = [bound |-> FALSE, val |-> <<>>]
    /\ elems' = <<>>
    /\ memberships' = <<>>
    /\ groups' = <<>>
    /\ err' = ""
    /\ call' = NoCall
    /\ batch' = [NoBatch EXCEPT !.kind = "generate_kuerzel"]
    /\ gelems' = <<>>
    /\ lastparent' = <<>>
    /\ rename' = NoRename
    /\ export' = [export EXCEPT !.schuljahr = NoExport.schuljahr, !.ret = NoExport.ret]
    /\ pc' = IF ~IsFile(export.users_csv) THEN "returned" ELSE "main_generate_kuerzel"
    /\ UNCHANGED outfile

\* lines 990-1010: main_generate_kuerzel; the call of line 1008 passes two
\* arguments
MainGenerateKuerzelBody ==
    /\ pc = "main_generate_kuerzel"
    /\ IF ~IsFile(export.renamed_csv)
       THEN /\ pc' = "returned"
            /\ UNCHANGED <<err, outfile>>
       ELSE LET r == CallCreateJamfAccountsTeachers(<<"./csv/08-jamf{exportdate}.csv", EmailToKuerzel>>)
            IN  IF r.raised
                THEN /\ pc' = "failed"
                     /\ err' = r.exc
                     /\ UNCHANGED outfile
                ELSE /\ pc' = "returned"
                     /\ outfile' = [exists |-> TRUE,
                                    header |-> "Username;Email;FirstName;LastName;TeacherGroups;Groups;Password",
                                    records |-> <<>>]
                     /\ UNCHANGED err
    /\ UNCHANGED <<users, birthday, elems, memberships, groups, call, batch, exportVars>>

NextKuerzel ==
    \/ MainExport
    \/ MainGenerateKuerzel
    \/ MainGenerateKuerzelBody
    \/ ExportParseYear
    \/ ExportParseUser
    \/ ExportParseUsersDone
    \/ ExportParseGroup
    \/ ExportParseGroupsDone
    \/ ExportParseMembership
    \/ ExportUsersToCsv
    \/ ExportGroupsToCsv
    \/ ExportRenameStep
    \/ ExportRenamedToCsv

SpecKuerzel == InitKuerzel /\ [][NextKuerzel]_vars

-----------------------------------------------------------------------------
(* Properties of the identity pass *)

Str_michmuel == <<"m","i","c","h","m","u","e","l">>
Str_joerg_meierstoss ==
    <<"j","o","e","r","g",".","m","e","i","e","r","s","t","o","s","s">>

\* n times "1"
Ones(n) == [k \in 1..n |-> "1"]

\* the base username the specification derives for a person element:
\* shortform for Student, dotted for faculty and extern
FirstToken(s) == Split(s, " ")[1]
StrippedFamily(e) == RemoveChar(RemoveChar(CustomTransliterate(e.family), " "), "-")
ShortformOf(e) ==
    Lower(Take(FirstToken(CustomTransliterate(e.given)), 4) \o Take(StrippedFamily(e), 4))
DottedOf(e) ==
    Lower(FirstToken(CustomTransliterate(e.given)) \o <<".">> \o StrippedFamily(e))
BaseOf(e) == IF e.role = "Student" THEN ShortformOf(e) ELSE DottedOf(e)

\* the first n persons of the document all derive the same base username
SameBaseUpTo(n) ==
    /\ n <= Len(users)
    /\ \A i \in 1..n : BaseOf(elems[i]) = BaseOf(elems[1])

\* C1 as stated: of three persons in sequence with the same base username the
\* first keeps the base, the second gets base+"1" and the third gets base+"1"
\* as well (suffixing does not cascade).
C1_ThirdGetsOneSuffix ==
    SameBaseUpTo(3) =>
        /\ users[1].username = BaseOf(elems[1])
        /\ users[2].username = BaseOf(elems[1]) \o <<"1">>
        /\ users[3].username = BaseOf(elems[1]) \o <<"1">>

\* C1 amended: when the persons processed so far all derive the same base
\* username, the i-th of them is assigned the base followed by i-1 times "1":
\* the first keeps the base, the second gets base+"1", the third base+"11".
C1_SuffixCascades ==
    \A n \in 1..Len(users) :
        SameBaseUpTo(n) =>
            \A i \in 1..n : users[i].username = BaseOf(elems[1]) \o Ones(i - 1)

C1_Witness ==
    /\ SameBaseUpTo(3)
    /\ users[1].username = Str_michmuel
    /\ users[2].username = Str_michmuel \o <<"1">>
    /\ users[3].username = Str_michmuel \o <<"1", "1">>

\* the birth-date slice of the password as the specification states it: the
\* first 3 characters of the ISO date of the element with hyphens removed,
\* empty for faculty and extern
IsoBirthSlice(e) ==
    IF e.role = "Student" /\ e.hasBday THEN Take(RemoveChar(e.bday, "-"), 3) ELSE <<>>

\* C2: every user's initial password is last 3 of externalId, last 2 of the
\* username, first 3 of the ISO birth date without hyphens (empty for
\* faculty/extern), first 2 of the username.
C2_PasswordUsesIsoBirthDate ==
    \A i \in 1..Len(users) :
        users[i].initialpassword =
            LastN(users[i].lehrerid, 3) \o LastN(users[i].username, 2)
                \o IsoBirthSlice(elems[i]) \o Take(users[i].username, 2)

\* C3: the username of every user is the base username of its role
\* (shortform for Student, dotted for faculty/extern), followed only by
\* collision suffixes; "Michael"/"Müller" as a Student gives "michmuel".
C3_UsernameByRole ==
    /\ \A i \in 1..Len(users) :
           \E k \in 0..(i - 1) : users[i].username = BaseOf(elems[i]) \o Ones(k)
    /\ (Len(users) >= 1 /\ elems[1] = P_Michael) => users[1].username = Str_michmuel

C3_Witness ==
    /\ \E i \in 1..Len(users) :
           users[i].institutionrole = "Student" /\ users[i].username = Str_michmuel
    /\ \E j \in 1..Len(users) :
           users[j].institutionrole = "faculty" /\ users[j].username = Str_joerg_meierstoss

UsernameChars ==
    {LowerLetters[k] : k \in 1..26} \cup {"0","1","2","3","4","5","6","7","8","9","."}

\* C4: every user's username is non-empty and consists only of characters in
\* [a-z0-9.].
C4_UsernameCharset ==
    \A i \in 1..Len(users) :
        /\ users[i].username # <<>>
        /\ \A k \in 1..Len(users[i].username) : users[i].username[k] \in UsernameChars

-----------------------------------------------------------------------------
(* Properties of course resolution *)

\* the memberships of the person of the last call, in iteration order
EdgesOf(studentid) == SelectSeq(memberships, LAMBDA m : m.nameid = studentid)

Resolvable(m) == HasGroup(groups, m.groupid)

\* the names the specification lists for a person: one per membership edge
\* whose group exists and has a non-empty name, in membership order
RECURSIVE NamesOfEdges(_)
NamesOfEdges(es) ==
    IF es = <<>> THEN <<>>
    ELSE IF Resolvable(Head(es)) /\ FirstGroupName(groups, Head(es).groupid) # <<>>
    THEN <<FirstGroupName(groups, Head(es).groupid)>> \o NamesOfEdges(Tail(es))
    ELSE NamesOfEdges(Tail(es))

\* C5: the returned list holds the group names of exactly the memberships of
\* the given person, in membership order, one entry per edge, and omits only
\* the entries whose group name is empty.
C5_CoursesAreNamesOfEdges ==
    call.done => call.ret = NamesOfEdges(EdgesOf(call.studentid))

\* C6: when a membership of the person refers to a group that is not in the
\* group table, no error is raised and every other resolvable, non-empty
\* course of the person is still in the returned list.
C6_DanglingEdgeDropsOnlyItself ==
    (call.done /\ \E k \in 1..Len(memberships) :
                     memberships[k].nameid = call.studentid /\ ~Resolvable(memberships[k]))
    => /\ err = ""
       /\ \A k \in 1..Len(memberships) :
              (/\ memberships[k].nameid = call.studentid
               /\ Resolvable(memberships[k])
               /\ FirstGroupName(groups, memberships[k].groupid) # <<>>)
              => \E j \in 1..Len(call.ret) :
                     call.ret[j] = FirstGroupName(groups, memberships[k].groupid)

-----------------------------------------------------------------------------
(* Properties of the provisioning batches *)

\* the batch of the given kind has run and has stopped: it returned ("done")
\* or an exception left it ("failed")
BatchStopped(kind) == batch.kind = kind /\ pc \in {"done", "failed"}

Fields(line) == Split(line, ";")
SetOf(seq) == {seq[k] : k \in 1..Len(seq)}

\* the course list of a user as the specification resolves it
CoursesOf(user) == NamesOfEdges(EdgesOf(user.lehrerid))

\* the supplementary groups appended by the catch-all expansion
SupplementaryGroups == {<<"i","P","a","d","s","-","P","o","o","l">>}

\* the group list of the catch-all expansion: the courses mapped through the
\* mapping table (unmapped ones dropped) united with the supplementary set
ExpandedGroups(courses) ==
    {MappingGroups[c] : c \in SetOf(courses) \cap DOMAIN MappingGroups}
        \cup SupplementaryGroups

\* the record written for a user: the line whose Username field is the
\* user's prefixed username
RecordsOfStudent(user) ==
    {k \in 1..Len(outfile.records) :
        Fields(outfile.records[k])[1] = OrgPrefix \o user.username}

\* C7: for a Student whose course list contains "AlleS", the Groups field of
\* the emitted record is the set of mapped courses united with the
\* supplementary set and does not contain "AlleS".
C7_CatchAllExpansion ==
    (BatchStopped("students") /\ batch.klasse_filter = NoFilter)
    => \A i \in 1..Len(users) :
           (users[i].institutionrole = "Student" /\ <<"A","l","l","e","S">> \in SetOf(CoursesOf(users[i])))
           => \E k \in RecordsOfStudent(users[i]) :
                  /\ SetOf(Split(Fields(outfile.records[k])[5], ","))
                         = ExpandedGroups(CoursesOf(users[i]))
                  /\ <<"A","l","l","e","S">> \notin SetOf(Split(Fields(outfile.records[k])[5], ","))

\* C8: a batch without class filter runs to completion and has then written
\* exactly one data record per person given to it.
C8_OneRecordPerPerson ==
    (batch.kind # "none" /\ batch.klasse_filter = NoFilter /\ pc \in {"done", "failed"})
    => /\ pc = "done"
       /\ Len(outfile.records) = Len(users)

\* C9: the student record of every user has Username = "164501-" + username,
\* Email = username + "@164501.nrw.schule", FirstName = username[0:4] and
\* LastName = username[4:], so FirstName + LastName = username.
C9_StudentFields ==
    (BatchStopped("students") /\ batch.klasse_filter = NoFilter)
    => \A i \in 1..Len(users) :
           \E k \in 1..Len(outfile.records) :
               LET fs == Fields(outfile.records[k])
               IN  /\ fs[1] = <<"1","6","4","5","0","1","-">> \o users[i].username
                   /\ fs[2] = users[i].username \o <<"@","1","6","4","5","0","1",".","n","r","w",".","s","c","h","u","l","e">>
                   /\ fs[3] = Take(users[i].username, 4)
                   /\ fs[4] = Drop(users[i].username, 4)
                   /\ fs[3] \o fs[4] = users[i].username

\* the short code of a staff user as the specification states it
ShortCodeOf(user) ==
    IF user.email \in DOMAIN EmailToKuerzel THEN EmailToKuerzel[user.email]
    ELSE IF Contains(user.lehrerid, <<"X">>)
    THEN Lower(Take(FirstToken(CustomTransliterate(user.given)), 4)
               \o Take(RemoveChar(RemoveChar(CustomTransliterate(user.name), " "), "-"), 4))
    ELSE Drop(user.lehrerid, 10)

\* C10: the staff record of every user in "AlleL" has FirstName = LastName =
\* the user's short code (table entry of the email, else the shortform
\* username when "X" is in externalId, else externalId[10:]) and Username and
\* Email built from the first 4 characters of the lower-cased code.
C10_StaffFields ==
    BatchStopped("teachers")
    => \A i \in 1..Len(users) :
           <<"A","l","l","e","L">> \in SetOf(CoursesOf(users[i]))
           => \E k \in 1..Len(outfile.records) :
                  LET fs == Fields(outfile.records[k])
                      code == ShortCodeOf(users[i])
                  IN  /\ fs[3] = code
                      /\ fs[4] = code
                      /\ fs[1] = <<"1","6","4","5","0","1","-">> \o Lower(Take(FirstToken(CustomTransliterate(code)), 4))
                      /\ fs[2] = Lower(Take(FirstToken(CustomTransliterate(code)), 4))
                                     \o <<"@","1","6","4","5","0","1",".","n","r","w",".","s","c","h","u","l","e">>

-----------------------------------------------------------------------------
(* Properties of rename_groups *)

\* group k of the list has been handled by the loop of rename_groups: it was
\* renamed, or it is the group at which the call raised
Renamed(k) == pc \in {"rename_groups", "done", "failed"} /\ k <= rename.i
Handled(k) == Renamed(k) \/ (pc = "failed" /\ err # "" /\ k = rename.i + 1 /\ k <= Len(groups))

RawName(k) == gelems[k].name

IsAlnum(s) ==
    \A k \in 1..Len(s) :
        \/ s[k] \in DigitChars
        \/ \E j \in 1..26 : s[k] = UpperLetters[j] \/ s[k] = LowerLetters[j]

\* a canonical name: empty, a catch-all constant, or an alphanumeric code that
\* ends in the two-digit school-year suffix
IsCanonicalName(s) ==
    \/ s = <<>>
    \/ s = <<"A", "l", "l", "e", "S">>
    \/ s = <<"A", "l", "l", "e", "L">>
    \/ IsAlnum(s) /\ Len(s) > 2 /\ LastN(s, 2) = Schuljahr

\* the raw name matches one of the patterns of rename_groups
MatchesPattern(s) ==
    \/ Contains(s, <<"K", "l", "a", "s", "s", "e">>)
    \/ Contains(s, <<"B", "I", "8">>)
    \/ Contains(s, <<"(">>)
    \/ Contains(s, <<"A", "l", "l", "e", " ", "-", " ", "S", "c", "h", "u", "e", "l", "e", "r">>)
    \/ Contains(s, <<"A", "l", "l", "e", " ", "-", " ", "L", "e", "h", "r", "e", "r">>)
    \/ Contains(s, <<"F", "a", "c", "h">>)
    \/ Contains(s, <<"B", "e", "r", "e", "i", "c", "h">>)

\* C11: once rename_groups has run over the list, every group's name is
\* canonical (empty, "AlleS"/"AlleL", or an alphanumeric code ending in the
\* school-year suffix), and a group whose raw name matches no pattern has the
\* empty name
C11_NamesCanonicalAfterRename ==
    pc = "done" =>
        \A k \in 1..Len(groups) :
            /\ IsCanonicalName(groups[k].name)
            /\ ~MatchesPattern(RawName(k)) => groups[k].name = <<>>

\* C12 as stated: the group named "Klasse 07D Schueler" is renamed to exactly "07DS"
C12_Klasse07DYields07DS ==
    \A k \in 1..Len(groups) :
        Renamed(k) /\ RawName(k) = <<"K", "l", "a", "s", "s", "e", " ", "0", "7", "D", " ", "S", "c", "h", "u", "e", "l", "e", "r">> => groups[k].name = <<"0", "7", "D", "S">>

\* C12: the group named "Klasse 07D Schueler" is renamed to "07DS" followed by
\* the two-digit school-year code of the run
C12_Klasse07DYields07DSWithYear ==
    \A k \in 1..Len(groups) :
        Renamed(k) /\ RawName(k) = <<"K", "l", "a", "s", "s", "e", " ", "0", "7", "D", " ", "S", "c", "h", "u", "e", "l", "e", "r">>
            => groups[k].name = <<"0", "7", "D", "S">> \o Schuljahr

C12_Witness ==
    \E k \in 1..Len(groups) :
        /\ Renamed(k)
        /\ RawName(k) = <<"K", "l", "a", "s", "s", "e", " ", "0", "7", "D", " ", "S", "c", "h", "u", "e", "l", "e", "r">>
        /\ groups[k].name = <<"0", "7", "D", "S", "2", "4">>

Count(list, x) == Cardinality({k \in 1..Len(list) : list[k] = x})

\* C13: a group whose raw name contains "Fach" or "Bereich" is looked up by its
\* raw name, exactly once, in the mapping table, whatever else the name
\* contains: it gets the table's value, and the run fails with KeyError at this
\* group when the raw name is not a key
C13_FachBereichLookedUpDirectly ==
    \A k \in 1..Len(groups) :
        Handled(k) /\ (Contains(RawName(k), <<"F", "a", "c", "h">>) \/ Contains(RawName(k), <<"B", "e", "r", "e", "i", "c", "h">>))
            => /\ Count(rename.lookups, RawName(k)) = 1
               /\ IF RawName(k) \in DOMAIN MappingGroups
                  THEN Renamed(k) /\ groups[k].name = MappingGroups[RawName(k)]
                  ELSE ~Renamed(k) /\ err = "KeyError"

\* the parenthetical of a course name is malformed: an opening parenthesis with
\* no closing one after it, or fewer than 4 comma-separated fields
Malformed(s) ==
    /\ Contains(s, <<"(">>)
    /\ \/ RFind(s, ")") < RFind(s, "(")
       \/ Len(Split(Slice(s, RFind(s, "(") + 1, RFind(s, ")")), ",")) < 4

\* C14: a group whose name is malformed is renamed to the empty string, and
\* rename_groups does not raise at it
C14_MalformedYieldsEmpty ==
    \A k \in 1..Len(groups) :
        Handled(k) /\ Malformed(RawName(k)) => Renamed(k) /\ groups[k].name = <<>>

-----------------------------------------------------------------------------
(* Properties of the batches: failures, serial numbers, classes *)

\* C15: when create_jamf_accounts or create_jamf_accounts_teachers has failed
\* while processing a user, its output file does not exist (no file with only
\* the header or only a prefix of the records is left)
C15_NoTruncatedFileAfterFailure ==
    (batch.kind \in {"students", "teachers"} /\ pc = "failed"
        /\ err \in {"TypeError", "IndexError"})
    => ~outfile.exists

\* the class of a course list as the specification states it: the class of the
\* first course, in the order of the list, that is a whitelisted class label
\* followed by the school-year code
RECURSIVE SpecClassOf(_)
SpecClassOf(courses) ==
    IF courses = <<>> THEN [none |-> TRUE, klasse |-> <<>>]
    ELSE IF \E k \in 1..Len(MappingKlassen) : Head(courses) = MappingKlassen[k].item \o Schuljahr
    THEN [none |-> FALSE,
          klasse |-> MappingKlassen[CHOOSE k \in 1..Len(MappingKlassen) :
                                        Head(courses) = MappingKlassen[k].item \o Schuljahr].klasse]
    ELSE SpecClassOf(Tail(courses))

\* the users of the class of the filter, in list order
UsersOfClass(klasse) ==
    SelectSeq(users, LAMBDA u : ~SpecClassOf(CoursesOf(u)).none
                                /\ SpecClassOf(CoursesOf(u)).klasse = klasse)

\* C16: when the roster of the class filter was read, the k-th user of the
\* class has the k-th record, and that record carries the serial number
\* registered for the k-th roster row; and when the registry lacks a roster
\* name the batch fails with KeyError and the output file is not created
C16_SerialsFollowRoster ==
    /\ (BatchStopped("students") /\ batch.ser_nums # <<>>)
       => LET em == UsersOfClass(batch.klasse_filter)
          IN  \A k \in 1..Min(Len(em), Len(batch.roster)) :
                  /\ k <= Len(outfile.records)
                  /\ Fields(outfile.records[k])[1] = OrgPrefix \o em[k].username
                  /\ Fields(outfile.records[k])[7] = DictNameSerial[batch.roster[k]]
    /\ (batch.kind = "students"
        /\ \E k \in 1..Len(batch.roster) : batch.roster[k] \notin DOMAIN DictNameSerial)
       => pc = "failed" /\ err = "KeyError" /\ ~outfile.exists

\* C17: return_class_of_user returns the class of the first course of the
\* user's course list, in the order of the list, that is a whitelisted class
\* label followed by the school-year code
C17_ClassOfFirstWhitelistedCourse ==
    (pc = "returned" /\ call.done)
    => /\ ~call.ret.raised
       /\ call.ret.value = SpecClassOf(CoursesOf([lehrerid |-> call.studentid]))

-----------------------------------------------------------------------------
(* Properties of parse_year *)

\* C19: for a file that contains the school-year string of the year 20ij, in
\* the plain form 20ij/i(j+1) or in the decade form 20i9/(i+1)0, parse_year
\* returns "ij"; it does not return None
C19_ParseYearReturnsStartingYear ==
    (pc = "returned" /\ export.ret.done)
    => \A y \in 0..98 :
           Contains(export.doc, SchoolYear(y))
               => ~export.ret.none /\ export.ret.val = TwoDigits(y)

-----------------------------------------------------------------------------
(* Properties of main_export *)

\* the rows of the raw groups file: the groups of the document with their
\* display names as parsed
RawGroupsRows ==
    << <<<<"g", "r", "o", "u", "p", "i", "d">>, <<"p", "a", "r", "e", "n", "t">>, <<"n", "a", "m", "e">>>> >>
        \o [k \in 1..Len(groups) |-> <<groups[k].groupid, groups[k].parent, gelems[k].name>>]

\* rename_groups has been called (it is running, has failed, or has returned)
RenameStarted ==
    \/ pc = "export_rename" /\ rename.i > 0
    \/ pc = "failed" /\ err \in {"KeyError", "IndexError"}
    \/ pc = "done"

\* C18: from the moment canonicalization starts the raw users file and the raw
\* groups file exist and are complete, the groups file with the unrenamed
\* names; and when rename_groups has failed they still are, and there is no
\* renamed-groups file
C18_RawFilesCompleteBeforeRename ==
    /\ (pc = "export_rename" \/ RenameStarted)
       => /\ export.users_csv = [exists |-> TRUE, rows |-> UsersCsvRows(users)]
          /\ export.groups_csv = [exists |-> TRUE, rows |-> RawGroupsRows]
    /\ (pc = "failed" /\ err \in {"KeyError", "IndexError"})
       => ~export.renamed_csv.exists

\* rename_groups failed after it had renamed a group: the raw groups file
\* still has that group's raw name
C18_Witness ==
    /\ pc = "failed"
    /\ err \in {"KeyError", "IndexError"}
    /\ rename.i > 0
    /\ groups[1].name # gelems[1].name
    /\ export.users_csv.exists
    /\ Len(export.users_csv.rows) > 1
    /\ export.groups_csv.rows[2][3] = gelems[1].name
    /\ ~export.renamed_csv.exists

-----------------------------------------------------------------------------
(* Uniqueness of the usernames *)

\* C20: after parse_users has processed any sequence of persons, the usernames
\* of the users in the list are pairwise distinct
C20_UsernamesPairwiseDistinct ==
    \A i, j \in 1..Len(users) : i # j => users[i].username # users[j].username

-----------------------------------------------------------------------------
(* Optional fields of the parsed records *)

\* C21: every record takes its optional fields from its own element: a group
\* whose element has no parent relationship has the empty parent, and a
\* Student whose element has no birth date has the empty birthday
C21_OptionalFieldsFromOwnElement ==
    /\ \A k \in 1..Len(groups) :
           ~gelems[k].hasParent => groups[k].parent = <<>>
    /\ \A k \in 1..Len(users) :
           (elems[k].role = "Student" /\ ~elems[k].hasBday) => users[k].birthday = <<>>

-----------------------------------------------------------------------------
(* One rule per group name *)

B2N(b) == IF b THEN 1 ELSE 0

\* the number of rules of rename_groups whose test succeeds for the raw name
\* s, each test taken on the name as the rules before it leave it
RulesApplied(s) ==
    LET n1 == KlasseRule(s, Schuljahr)
        c == CourseRule(n1, Schuljahr)
        n2 == AlleRule(c.name)
    IN  B2N(Contains(s, <<"K", "l", "a", "s", "s", "e">>))
        + B2N(Contains(n1, <<"B", "I", "8">>) \/ Contains(n1, <<"(">>))
        + (IF c.raised # "" THEN 0
           ELSE B2N(Contains(c.name, <<"A", "l", "l", "e", " ", "-", " ", "S", "c", "h", "u", "e", "l", "e", "r">>) \/ Contains(c.name, <<"A", "l", "l", "e", " ", "-", " ", "L", "e", "h", "r", "e", "r">>))
                + B2N(Contains(n2, <<"F", "a", "c", "h">>) \/ Contains(n2, <<"B", "e", "r", "e", "i", "c", "h">>)))

\* the number of times the school-year suffix ends the name, counted from the end
RECURSIVE SuffixCount(_)
SuffixCount(s) ==
    IF Len(s) >= 2 /\ LastN(s, 2) = Schuljahr THEN 1 + SuffixCount(Take(s, Len(s) - 2)) ELSE 0

\* C22: for every group handled by rename_groups at most one rule applies to
\* its name, and a name rewritten by the "Klasse" rule is left as that rule
\* wrote it (the BI8 and parenthesis rules do not process it again), with the
\* school-year suffix appended once
C22_AtMostOneRulePerName ==
    \A k \in 1..Len(groups) :
        Handled(k) =>
            /\ RulesApplied(RawName(k)) <= 1
            /\ Contains(RawName(k), <<"K", "l", "a", "s", "s", "e">>)
                   => /\ Renamed(k)
                      /\ groups[k].name = KlasseRule(RawName(k), Schuljahr)
                      /\ SuffixCount(groups[k].name) = 1

-----------------------------------------------------------------------------
(* The TeacherGroups field *)

\* a comma-separated list without an empty entry
NoEmptyEntry(s) == \A k \in 1..Len(Split(s, ",")) : Split(s, ",")[k] # <<>>

\* C23: every staff user in "AlleL" has a record, and the TeacherGroups field
\* of every record is a comma-separated list with no empty entry (no leading,
\* trailing or doubled comma)
C23_TeacherGroupsWellFormed ==
    BatchStopped("teachers")
    => /\ \A k \in 1..Len(outfile.records) : NoEmptyEntry(Fields(outfile.records[k])[5])
       /\ \A i \in 1..Len(users) :
              <<"A", "l", "l", "e", "L">> \in SetOf(CoursesOf(users[i]))
              => \E k \in 1..Len(outfile.records) :
                     Fields(outfile.records[k])[3] = ShortCodeOf(users[i])

-----------------------------------------------------------------------------
(* The staff file in generate_kuerzel mode *)

GenerateRunEnded == batch.kind = "generate_kuerzel" /\ pc \in {"returned", "failed"}

\* C24: in generate_kuerzel mode the staff file is created or overwritten only
\* if the users export and the renamed-groups export both exist; when either
\* is missing the run returns without an error and leaves the staff file as it
\* was
C24_StaffFileOnlyAfterExport ==
    [][/\ outfile' # outfile
           => export.users_csv.exists /\ export.renamed_csv.exists
       /\ (GenerateRunEnded' /\ ~(export'.users_csv.exists /\ export'.renamed_csv.exists))
           => pc' = "returned" /\ err' = "" /\ outfile' = outfile]_vars

\* a run in generate_kuerzel mode after a run of main_export that wrote the
\* users export and failed before the renamed-groups export: it has returned
\* and the earlier staff file is untouched
C24_Witness ==
    /\ GenerateRunEnded
    /\ export.users_csv.exists
    /\ Len(export.users_csv.rows) > 1
    /\ ~export.renamed_csv.exists
    /\ pc = "returned"
    /\ outfile = OldStaffFile


====
